---------------------------- MODULE Spec2Model ----------------------------
(***************************************************************************)
(* A model of shinerainsoftsevenutil's file layer:                         *)
(*   files/m1_files_wrappers.py   copy, move and their platform helpers    *)
(*   files/m2_files_listing.py    recurseFiles, recurseDirs, recurseFileInfo*)
(*   files/m3_files_higher.py     computeHash, hasherFromString            *)
(*                                                                         *)
(* The file system is a map from a few paths to a file, a directory or     *)
(* nothing.  A file's content is a sequence of chunks: one chunk is what   *)
(* one read(64 * 1024) of _copyFilePosix returns.  A file has a            *)
(* modification time; the directories above the paths are kept in dirs.    *)
(* The debugging options doTrace and traceOnly are at their default        *)
(* (False); a destination is never an existing directory (other than in    *)
(* the identical-path case).                                               *)
(***************************************************************************)
EXTENDS Integers, Sequences, FiniteSets, TLC

VARIABLES
    platform,   \* sys.platform: "win", "linux" or "other" (another POSIX)
    fs,         \* the file system: path -> [kind, data]
    pc,         \* where the running copy/move call stands
    call,       \* the arguments of the running call
    pre,        \* the file system as it was when the call was made
    result,     \* "none" while running, "ok", or the error raised
    pos,        \* chunks of the source _copyFilePosix has read so far
    fd,         \* what the destination handle of the copy refers to
    tries,      \* the platform primitives the call has invoked, in order
    dirs,       \* the directories above the paths: name -> "none", "dir", "file"
    tree,       \* the directory tree a traversal walks
    walk,       \* the running traversal and its options
    wstack,     \* the directories the traversal still has to work on
    wout,       \* the entries yielded so far, in order
    wcb,        \* the calls made to fnDirectExceptionsTo, in order
    wpc,        \* "idle", "run" or "done"
    wresult,    \* "none" while running, "ok", or the error raised
    hcall,      \* the arguments of the running computeHash
    hpc,        \* "idle", "opened", "reading" or "done"
    hio,        \* the I/O calls computeHash has made, in order
    hacc,       \* the state of the digest accumulator
    hpos,       \* bytes of the file read so far
    hresult     \* "none" while running, "ok", or the error raised

transferVars == <<platform, fs, pc, call, pre, result, pos, fd, tries, dirs>>
walkVars == <<tree, walk, wstack, wout, wcb, wpc, wresult>>
hashVars == <<hcall, hpc, hio, hacc, hpos, hresult>>
vars == <<transferVars, walkVars, hashVars>>

-----------------------------------------------------------------------------
(* Bounds *)

MaxChunks == 2

\* The deepest directory of the walked tree (the root is at depth 0).
MaxDepth == 2

\* The largest buffersize computeHash is called with, in bytes.
MaxBuf == 2

\* The latest modification time a file starts with.
MaxTime == 2

\* The most calls of MoveFileExW one move is followed through.
MaxTries == 3

\* The most symbolic links the system resolves on one path; a path through
\* more of them cannot be listed (ELOOP).
MaxHops == 1

-----------------------------------------------------------------------------
(* The file system *)

Paths == {"a", "b", "c"}

\* "a" and "b" are on one volume, "c" is on another.
Volume(p) == IF p = "c" THEN 2 ELSE 1

Platforms == {"win", "linux", "other"}

\* A content is a sequence of distinct chunk ids in increasing order.
Contents ==
    {c \in UNION {[1..n -> 1..MaxChunks] : n \in 0..MaxChunks} :
        \A i \in 1..(Len(c) - 1) : c[i] < c[i + 1]}

\* Modification times (st_mtime_ns) are small numbers; Now is the clock's
\* reading while the calls run: what a write leaves as the file's time.
Times == 0..MaxTime
Now == 1

Absent == [kind |-> "none", data |-> <<>>, mtime |-> 0]
Dir == [kind |-> "dir", data |-> <<>>, mtime |-> 0]
FileAt(c, t) == [kind |-> "file", data |-> c, mtime |-> t]
File(c) == FileAt(c, Now)

Nodes == {Absent, Dir} \cup {File(c) : c \in Contents}

\* Files of any age.
TimedNodes == {Absent} \cup {FileAt(c, t) : c \in Contents, t \in Times}

\* The same kind of entry with the same bytes.
SameContent(n, m) == n.kind = m.kind /\ n.data = m.data

exists(f, p) == f[p].kind # "none"
isFile(f, p) == f[p].kind = "file"
isDir(f, p) == f[p].kind = "dir"

Errors == {"SourceMissing", "DestinationConflict", "CrossVolume", "PlatformDenied",
           "SameFile", "AssertionError", "IOError", "Interrupted", "PathNotFound",
           "FileNotFoundError", "FileExistsError", "NotADirectoryError"}

\* The directories above the paths.  "a" is a bare file name (its parent is
\* the empty string), "b" lies in the directory "q", which lies in "p", and
\* "c" lies in "v", the root of the other volume, which is always there.
DirNames == {"p", "q"}

\* getParent(path): os.path.split(path)[0]
getParent(path) ==
    CASE path = "a" -> ""
      [] path = "b" -> "q"
      [] path = "c" -> "v"

\* The directories above the directory t.
Ancestors(t) == IF t = "q" THEN {"p"} ELSE {}

\* os.path.exists and os.path.isdir for the path of a directory.
dirExists(d, t) == IF t = "" THEN FALSE ELSE IF t = "v" THEN TRUE ELSE d[t] # "none"
dirIsDir(d, t) == IF t = "" THEN FALSE ELSE IF t = "v" THEN TRUE ELSE d[t] = "dir"

AllDirs == [t \in DirNames |-> "dir"]

\* The states the directories can be in: nothing lies in what is no
\* directory.
DirStates == {d \in [DirNames -> {"none", "dir", "file"}] :
                 d["q"] # "none" => d["p"] = "dir"}

\* A file can be created at path only when its parent is a directory (the
\* current directory, for a bare name).
ParentIsDir(d, path) == getParent(path) = "" \/ dirIsDir(d, getParent(path))

\* os.makedirs(t): the outcome as [dirs, err].
os_makedirs(d, t) ==
    IF t = "" THEN [dirs |-> d, err |-> "FileNotFoundError"]
    ELSE IF dirExists(d, t) THEN [dirs |-> d, err |-> "FileExistsError"]
    ELSE IF \E x \in Ancestors(t) : d[x] = "file"
    THEN [dirs |-> d, err |-> "NotADirectoryError"]
    ELSE [dirs |-> [x \in DirNames |-> IF x = t \/ x \in Ancestors(t) THEN "dir" ELSE d[x]],
          err |-> "ok"]

\* makeDirs: `except OSError: if isDir(s): return`.
Swallowed(d, t) == dirIsDir(d, t)

\* makeDirs(t)
makeDirs(d, t) ==
    LET o == os_makedirs(d, t)
    IN  IF o.err # "ok" /\ Swallowed(o.dirs, t) THEN [o EXCEPT !.err = "ok"] ELSE o

NoCall == [op |-> "none", src |-> "a", dst |-> "a", overwrite |-> FALSE,
           allowDirs |-> FALSE, warnBetweenDrives |-> FALSE,
           keepSameModifiedTime |-> FALSE, createParent |-> FALSE]

-----------------------------------------------------------------------------
(* copy and move: the checks made before anything is transferred *)

\* copy, lines 115-118: the source must be a file (the second test can then
\* never fail).
CopyPrecheck(f, c) ==
    IF ~isFile(f, c.src) THEN "SourceMissing"
    ELSE IF ~c.allowDirs /\ isDir(f, c.src) THEN "SourceMissing"
    ELSE "ok"

\* move, lines 158-161.
MovePrecheck(f, c) ==
    IF ~exists(f, c.src) THEN "SourceMissing"
    ELSE IF ~c.allowDirs /\ ~isFile(f, c.src) THEN "SourceMissing"
    ELSE "ok"

SamePathNever(s, d) == FALSE

\* `if srcFile == destFile: pass`
SamePath(s, d) == s = d

\* assertTrue(exists(destFile)) at the end of copy and of move.
AssertExists(f, d) == IF exists(f, d) THEN "ok" ELSE "AssertionError"

\* toSetModTime = None
None == -1

\* copy, lines 120-123: the destination's time is read when
\* keepSameModifiedTime is set and the destination exists (p is the file
\* system at that moment).
ToSetModTime(p, c) ==
    IF c.keepSameModifiedTime /\ exists(p, c.dst) THEN p[c.dst].mtime ELSE None

\* `if toSetModTime:` - None and 0 are both false.
Truthy(v) == v # None /\ v # 0

\* copy, lines 143-144: setLastModTime(destFile, toSetModTime) - os.utime
\* sets the destination's modification time.
RestoreModTime(f, c, p) ==
    LET t == ToSetModTime(p, c)
    IN  IF Truthy(t) THEN [f EXCEPT ![c.dst].mtime = t] ELSE f

-----------------------------------------------------------------------------
(* The Windows primitives *)

FailIfExistsNever(overwrite) == FALSE

\* failIfExists = c_int(0) if overwrite else c_int(1)
FailIfExists(overwrite) == ~overwrite

\* CopyFileW(src, dst, failIfExists): the outcome as [fs, err].
CopyFileW(f, s, d, failIfExists) ==
    IF exists(f, d) /\ failIfExists
    THEN [fs |-> f, err |-> "DestinationConflict"]
    ELSE [fs |-> [f EXCEPT ![d] = f[s]], err |-> "ok"]

_copyFileWin(f, s, d, overwrite) == CopyFileW(f, s, d, FailIfExists(overwrite))

\* The errors MoveFileExW can report for these arguments; the order in which
\* the system tests them is not known, so it reports any one of them.
MoveFileExWErrors(f, s, d, replaceExisting, copyAllowed) ==
    (IF exists(f, d) /\ ~replaceExisting THEN {"DestinationConflict"} ELSE {})
    \cup (IF exists(f, d) /\ replaceExisting /\ isDir(f, s)
          THEN {"PlatformDenied"} ELSE {})
    \cup (IF Volume(s) # Volume(d) /\ (~copyAllowed \/ isDir(f, s))
          THEN {"CrossVolume"} ELSE {})

\* What a successful rename or move leaves: the source's node at dst, no src.
Renamed(f, s, d) == [f EXCEPT ![d] = f[s], ![s] = Absent]

MoveFileExW(f, s, d, replaceExisting, copyAllowed) ==
    LET errs == MoveFileExWErrors(f, s, d, replaceExisting, copyAllowed)
    IN  IF errs = {} THEN {[fs |-> Renamed(f, s, d), err |-> "ok"]}
        ELSE {[fs |-> f, err |-> e] : e \in errs}

\* One call of a platform primitive, as recorded in tries.
Try(api, replaceExisting, copyAllowed) ==
    [api |-> api, replaceExisting |-> replaceExisting, copyAllowed |-> copyAllowed]

RetryWarnSame(warnBetweenDrives) == warnBetweenDrives

\* `return _moveFileWin(srcFile, destFile, overwrite, warnBetweenDrives=False)`:
\* the warnBetweenDrives of the call _moveFileWin makes itself.
RetryWarn(warnBetweenDrives) == FALSE

-----------------------------------------------------------------------------
(* The POSIX primitives *)

\* os.rename(src, dst) on Linux.
RenameErrors(f, s, d) ==
    (IF Volume(s) # Volume(d) THEN {"CrossVolume"} ELSE {})
    \cup (IF isDir(f, s) /\ isFile(f, d) THEN {"PlatformDenied"} ELSE {})

os_rename(f, s, d) ==
    LET errs == RenameErrors(f, s, d)
    IN  IF errs = {} THEN {[fs |-> Renamed(f, s, d), err |-> "ok"]}
        ELSE {[fs |-> f, err |-> e] : e \in errs}

ExclusiveCreateNever(overwrite) == FALSE

\* _copyFilePosix: O_CREAT | O_EXCL | O_WRONLY is used when overwrite is
\* false; shutil.copy (open(dst, 'wb')) when it is true.
ExclusiveCreate(overwrite) == ~overwrite

\* Opening the destination for writing: the outcome as [fs, fd, err].  The
\* handle is "mine" when this open created the file and "theirs" when it
\* opened (and truncated) a file that was already there.
OpenDest(f, s, d, excl) ==
    IF ~excl /\ s = d
    THEN [fs |-> f, fd |-> "closed", err |-> "SameFile"]
    ELSE IF ~exists(f, d)
    THEN [fs |-> [f EXCEPT ![d] = FileAt(<<>>, Now)], fd |-> "mine", err |-> "ok"]
    ELSE IF excl
    THEN [fs |-> f, fd |-> "closed", err |-> "DestinationConflict"]
    ELSE [fs |-> [f EXCEPT ![d] = FileAt(<<>>, Now)], fd |-> "theirs", err |-> "ok"]

\* fDest.write(buffer): the handle's file gets the chunk; a file that was
\* unlinked meanwhile is no longer at the path.
WriteChunk(f, d, handle, chunk) ==
    IF handle \in {"mine", "theirs"}
    THEN [f EXCEPT ![d].data = Append(@, chunk), ![d].mtime = Now]
    ELSE f

UnlinkedNot(f, p) == f

\* os.unlink(srcFile)
Unlinked(f, p) == [f EXCEPT ![p] = Absent]

-----------------------------------------------------------------------------
(* The calls *)

Finish(f, r) ==
    /\ fs' = f
    /\ result' = r
    /\ pc' = "done"
    /\ fd' = "closed"

\* The end of copy, lines 142-144, for the call c made when the file system
\* was p.
FinishCopy(f, c, p) ==
    IF ~exists(f, c.dst) THEN Finish(f, AssertExists(f, c.dst))
    ELSE Finish(RestoreModTime(f, c, p), "ok")

\* `if createParent and not exists(getParent(destFile))`
NeedsParent(d, c) == c.createParent /\ ~dirExists(d, getParent(c.dst))

\* copy and move from the identical-path test on, for the call c made when
\* the file system was p.
AfterParent(c, p) ==
    IF SamePath(c.src, c.dst)
    THEN IF c.op = "copy" THEN FinishCopy(fs, c, p)
         ELSE Finish(fs, AssertExists(fs, c.dst))
    ELSE /\ pc' = "strategy"
         /\ UNCHANGED <<fs, result, fd>>

\* copy(srcFile, destFile, overwrite, keepSameModifiedTime=..., allowDirs=...,
\* createParent=...) up to makeDirs or the choice of the platform's strategy.
CallCopy(s, d, ow, ad, keep, cp) ==
    LET c == [op |-> "copy", src |-> s, dst |-> d, overwrite |-> ow,
              allowDirs |-> ad, warnBetweenDrives |-> FALSE,
              keepSameModifiedTime |-> keep, createParent |-> cp]
        chk == CopyPrecheck(fs, c)
    IN  /\ pc = "idle"
        /\ ~isDir(fs, d) \/ s = d
        /\ call' = c
        /\ pre' = fs
        /\ pos' = 0
        /\ tries' = <<>>
        /\ UNCHANGED <<platform, dirs, walkVars, hashVars>>
        /\ IF chk # "ok" THEN Finish(fs, chk)
           ELSE IF keep /\ exists(fs, d) /\ ~isFile(fs, d)
           THEN Finish(fs, "AssertionError")
           ELSE IF NeedsParent(dirs, c)
           THEN /\ pc' = "makedirs"
                /\ UNCHANGED <<fs, result, fd>>
           ELSE AfterParent(c, fs)

\* move(srcFile, destFile, overwrite, warnBetweenDrives=..., allowDirs=...,
\* createParent=...) up to makeDirs or the choice of the platform's strategy.
CallMove(s, d, ow, ad, warn, cp) ==
    LET c == [op |-> "move", src |-> s, dst |-> d, overwrite |-> ow,
              allowDirs |-> ad, warnBetweenDrives |-> warn,
              keepSameModifiedTime |-> FALSE, createParent |-> cp]
        chk == MovePrecheck(fs, c)
    IN  /\ pc = "idle"
        /\ ~isDir(fs, d) \/ s = d
        /\ call' = c
        /\ pre' = fs
        /\ pos' = 0
        /\ tries' = <<>>
        /\ UNCHANGED <<platform, dirs, walkVars, hashVars>>
        /\ IF chk # "ok" THEN Finish(fs, chk)
           ELSE IF NeedsParent(dirs, c)
           THEN /\ pc' = "makedirs"
                /\ UNCHANGED <<fs, result, fd>>
           ELSE AfterParent(c, fs)

\* makeDirs(getParent(destFile)) in copy and in move, and what follows it.
MakeDirs ==
    /\ pc = "makedirs"
    /\ LET o == makeDirs(dirs, getParent(call.dst))
       IN  /\ dirs' = o.dirs
           /\ IF o.err # "ok" THEN Finish(fs, o.err) ELSE AfterParent(call, pre)
    /\ UNCHANGED <<platform, tries, call, pre, pos, walkVars, hashVars>>

\* A primitive that is to create the destination finds no directory to
\* create it in.
PathFail(api) ==
    /\ Finish(fs, "PathNotFound")
    /\ tries' = Append(tries, Try(api, call.overwrite, FALSE))

\* An atomic primitive's outcome o = [fs, err], followed by the closing
\* assertTrue(exists(destFile)).
AfterPrimitive(o) ==
    IF o.err # "ok" THEN Finish(o.fs, o.err)
    ELSE IF call.op = "copy" THEN FinishCopy(o.fs, call, pre)
    ELSE Finish(o.fs, AssertExists(o.fs, call.dst))

\* _copyFilePosix up to its streaming loop.
StartPosixCopy ==
    LET o == OpenDest(fs, call.src, call.dst, ExclusiveCreate(call.overwrite))
    IN  IF o.err # "ok" THEN Finish(o.fs, o.err)
        ELSE /\ fs' = o.fs
             /\ fd' = o.fd
             /\ pc' = "stream"
             /\ UNCHANGED result

\* copy's strategy: _copyFileWin on Windows, _copyFilePosix elsewhere.
CopyStrategy ==
    /\ pc = "strategy"
    /\ call.op = "copy"
    /\ IF ~ParentIsDir(dirs, call.dst)
       THEN PathFail(IF platform = "win" THEN "CopyFileW" ELSE "open")
       ELSE IF platform = "win"
       THEN /\ AfterPrimitive(_copyFileWin(fs, call.src, call.dst, call.overwrite))
            /\ tries' = Append(tries, Try("CopyFileW", call.overwrite, FALSE))
       ELSE /\ StartPosixCopy
            /\ tries' = Append(tries, Try("open", call.overwrite, FALSE))
    /\ UNCHANGED <<platform, dirs, call, pre, pos, walkVars, hashVars>>

\* The warnBetweenDrives of the running _moveFileWin: the one move passed
\* on the first call, the one _moveFileWin passed to itself afterwards.
WarnNow ==
    IF tries = <<>> THEN call.warnBetweenDrives
    ELSE RetryWarn(~tries[Len(tries)].copyAllowed)

\* One call of _moveFileWin: flags |= 1 if overwrite; flags |= 0 if
\* warnBetweenDrives else 2; MoveFileExW.  A 'Different drives' failure with
\* warnBetweenDrives set alerts and calls _moveFileWin again; any other
\* failure is raised.
_moveFileWin ==
    LET warn == WarnNow
        copyAllowed == ~warn
    IN  /\ Len(tries) < MaxTries
        /\ tries' = Append(tries, Try("MoveFileExW", call.overwrite, copyAllowed))
        /\ \E o \in MoveFileExW(fs, call.src, call.dst, call.overwrite, copyAllowed) :
              IF o.err = "CrossVolume" /\ warn
              THEN UNCHANGED <<fs, result, pc, fd>>
              ELSE AfterPrimitive(o)

\* move's strategy: _moveFileWin on Windows, os.rename on Linux with
\* overwrite, and otherwise copy(srcFile, destFile, overwrite) (whose own
\* first test, isFile(srcFile), comes before its _copyFilePosix) followed by
\* os.unlink.
MoveStrategy ==
    /\ pc = "strategy"
    /\ call.op = "move"
    /\ IF platform = "win"
       THEN IF ParentIsDir(dirs, call.dst) THEN _moveFileWin
            ELSE PathFail("MoveFileExW")
       ELSE IF platform = "linux" /\ call.overwrite
       THEN IF ParentIsDir(dirs, call.dst)
            THEN /\ \E o \in os_rename(fs, call.src, call.dst) : AfterPrimitive(o)
                 /\ tries' = Append(tries, Try("rename", TRUE, FALSE))
            ELSE PathFail("rename")
       ELSE IF ~isFile(fs, call.src)
       THEN /\ Finish(fs, "SourceMissing")
            /\ UNCHANGED tries
       ELSE IF ParentIsDir(dirs, call.dst)
       THEN /\ StartPosixCopy
            /\ tries' = Append(tries, Try("open", call.overwrite, FALSE))
       ELSE PathFail("open")
    /\ UNCHANGED <<platform, dirs, call, pre, pos, walkVars, hashVars>>

\* One turn of the loop: buffer = fSrc.read(64 * 1024); fDest.write(buffer).
CopyChunk ==
    /\ pc = "stream"
    /\ pos < Len(fs[call.src].data)
    /\ fs' = WriteChunk(fs, call.dst, fd, fs[call.src].data[pos + 1])
    /\ pos' = pos + 1
    /\ UNCHANGED <<platform, dirs, tries, pc, call, pre, result, fd, walkVars, hashVars>>

\* The read returns nothing: the handles are closed and copy ends with
\* assertTrue(exists(destFile)); inside move, os.unlink(srcFile) is next.
CopyEnd ==
    /\ pc = "stream"
    /\ pos >= Len(fs[call.src].data)
    /\ LET chk == AssertExists(fs, call.dst)
       IN  IF call.op = "copy" THEN FinishCopy(fs, call, pre)
           ELSE IF chk # "ok" THEN Finish(fs, chk)
           ELSE /\ pc' = "unlink"
                /\ fd' = "closed"
                /\ UNCHANGED <<fs, result>>
    /\ UNCHANGED <<platform, dirs, tries, call, pre, pos, walkVars, hashVars>>

\* A read or a write raises, or the call is interrupted: the with-blocks
\* close both handles and the exception leaves copy (and move).
StreamFail ==
    /\ pc = "stream"
    /\ \E e \in {"IOError", "Interrupted"} : Finish(fs, e)
    /\ UNCHANGED <<platform, dirs, tries, call, pre, pos, walkVars, hashVars>>

MoveUnlinkEarly ==
    /\ pc = "stream"
    /\ call.op = "move"
    /\ fs' = Unlinked(fs, call.src)
    /\ UNCHANGED <<platform, dirs, tries, pc, call, pre, result, pos, fd, walkVars,
                   hashVars>>

\* move, lines 182-184: os.unlink(srcFile); assertTrue(exists(destFile)).
MoveUnlink ==
    /\ pc = "unlink"
    /\ LET f == Unlinked(fs, call.src)
       IN  Finish(f, AssertExists(f, call.dst))
    /\ UNCHANGED <<platform, dirs, tries, call, pre, pos, walkVars, hashVars>>

\* The call has returned or raised; the caller goes on.
Return ==
    /\ pc = "done"
    /\ pc' = "idle"
    /\ call' = NoCall
    /\ pre' = fs
    /\ result' = "none"
    /\ pos' = 0
    /\ tries' = <<>>
    /\ UNCHANGED <<platform, dirs, fs, fd, walkVars, hashVars>>

-----------------------------------------------------------------------------
(* Directory traversal (m2_files_listing.py)                               *)
(*                                                                         *)
(* The walked tree is a chain of directories 0 (the root), 1, ...,         *)
(* MaxDepth; directory i holds one file, <<"f", i>>, and, above MaxDepth,   *)
(* the directory <<"d", i + 1>>.  tree.names[i] is the name of the file in *)
(* directory i, tree.unreadable the directory whose listing raises OSError *)
(* (0: none), tree.dirFirst whether a listing gives the subdirectory       *)
(* before the file.  tree.link is a symbolic link: the entry <<"l", at>>   *)
(* in directory at, pointing to the directory to (kind "dir"), to a file   *)
(* (kind "file"), or not there at all (kind "none").  A link to a          *)
(* directory at or above the link's own makes a cycle.                     *)

FileNames ==
    {<<"a", ".", "t">>, <<"a", ".", "p", ".", "T">>, <<".", "t">>, <<"b", ".", "p">>}

NoLink == [at |-> 0, kind |-> "none", to |-> 0]

Links ==
    {NoLink}
    \cup [at : 0..MaxDepth, kind : {"dir"}, to : 0..MaxDepth]
    \cup [at : 0..MaxDepth, kind : {"file"}, to : {0}]

\* The name of the link: it has no extension.
LinkName == <<"l">>

Trees ==
    [names : [0..MaxDepth -> FileNames], unreadable : 0..MaxDepth, dirFirst : BOOLEAN,
     link : {NoLink}]

\* str.lower() on the characters of the names.
LowerChar(ch) == IF ch = "T" THEN "t" ELSE IF ch = "P" THEN "p" ELSE ch
Lower(str) == [i \in 1..Len(str) |-> LowerChar(str[i])]

\* os.path.splitext: the extension starts at the last dot, unless only dots
\* come before it.
LastDot(name) ==
    LET dots == {i \in 1..Len(name) : name[i] = "."}
    IN  IF dots = {} THEN 0 ELSE CHOOSE i \in dots : \A j \in dots : j <= i
splitExtAfter(name) ==
    LET d == LastDot(name)
    IN  IF d > 0 /\ \E j \in 1..(d - 1) : name[j] # "."
        THEN SubSeq(name, d, Len(name))
        ELSE <<>>

getExtNoLower(name) ==
    LET after == splitExtAfter(name)
    IN  IF Len(after) > 0 /\ after[1] = "." THEN Tail(after) ELSE after

\* getExt(s, removeDot=True)
getExt(name) ==
    LET after == splitExtAfter(name)
    IN  IF Len(after) > 0 /\ after[1] = "." THEN Lower(Tail(after)) ELSE Lower(after)

\* allowedExts: None, or a collection of extensions.
NoExts == [given |-> FALSE, set |-> {}]
ExtOptions ==
    {NoExts} \cup {[given |-> TRUE, set |-> S] : S \in SUBSET {<<"t">>, <<"p">>}}

\* `not allowedExts or getExt(filename) in allowedExts`
ExtAllowed(exts, name) ==
    \/ ~exts.given
    \/ exts.set = {}
    \/ getExt(name) \in exts.set

\* `not fnFilterDirs or fnFilterDirs(path)`: the predicate rejects the
\* directory w.reject (0: there is no predicate).
Accepted(w, j) == j # w.reject

NoWalk ==
    [fn |-> "none", exts |-> NoExts, reject |-> 0, topDown |-> TRUE,
     includeFiles |-> TRUE, includeDirs |-> FALSE, recurse |-> TRUE,
     filesOnly |-> TRUE, callback |-> FALSE, followSymlinks |-> FALSE]

\* A directory being worked on; hops is the number of symbolic links on the
\* path it was reached by.
Frame(i, phase, hops) == [dir |-> i, idx |-> 1, phase |-> phase, hops |-> hops]

FollowsLinkAlways(followSymlinks) == TRUE

\* os.walk(..., followlinks=followSymlinks) and
\* entry.is_dir(follow_symlinks=followSymlinks): a symbolic link to a
\* directory is taken for a directory to go into only when followSymlinks
\* is set.
FollowsLink(followSymlinks) == followSymlinks

\* Directory i holds a symbolic link of this kind.
HasLink(i, kind) == tree.link.kind = kind /\ tree.link.at = i

\* Listing (os.scandir) a directory reached this way raises OSError.
Unlistable(i, hops) == (i = tree.unreadable /\ i # 0) \/ hops > MaxHops

\* The subdirectories (dirNames) of directory i.
SubDirs(i) == IF i < MaxDepth THEN <<i + 1>> ELSE <<>>

\* os.scandir(i), in the order the system gives the entries.
Children(i) ==
    LET f == <<"f", i>>
        d == <<"d", i + 1>>
        l == IF tree.link.kind # "none" /\ tree.link.at = i THEN << <<"l", i>> >> ELSE <<>>
    IN  (IF i >= MaxDepth THEN <<f>>
         ELSE IF tree.dirFirst THEN <<d, f>> ELSE <<f, d>>) \o l

\* recurseFiles, lines 61-63.
FilterDirs(w, dirNames) ==
    LET Keep(j) == Accepted(w, j)
    IN  SelectSeq(dirNames, Keep)

Frames(dirNames, hops) ==
    [k \in 1..Len(dirNames) |-> Frame(dirNames[k], "enter", hops)]

\* os.walk: a symbolic link to a directory is in dirNames, and is walked
\* into only with followlinks.
LinkFrames(w, i, hops) ==
    IF HasLink(i, "dir") /\ FollowsLink(w.followSymlinks)
    THEN <<Frame(tree.link.to, "enter", hops + 1)>>
    ELSE <<>>

\* recurseFiles, lines 65-74: what one turn of the loop over os.walk yields
\* for directory i.
LoopYields(w, i) ==
    LET Match(n) ==
            ExtAllowed(w.exts, IF n[1] = "l" THEN LinkName ELSE tree.names[n[2]])
        fileNames ==
            << <<"f", i>> >> \o (IF HasLink(i, "file") THEN << <<"l", i>> >> ELSE <<>>)
    IN  (IF w.includeFiles THEN SelectSeq(fileNames, Match) ELSE <<>>)
        \o (IF w.includeDirs THEN << <<"d", i>> >> ELSE <<>>)

StartWalk(w) ==
    /\ wpc = "idle"
    /\ walk' = w
    /\ wstack' = <<Frame(0, "enter", 0)>>
    /\ wout' = <<>>
    /\ wcb' = <<>>
    /\ wpc' = "run"
    /\ wresult' = "none"
    /\ UNCHANGED <<tree, transferVars, hashVars>>

\* recurseFiles(root, allowedExts=..., fnFilterDirs=..., includeFiles=...,
\* includeDirs=..., topDown=..., followSymlinks=...)
CallRecurseFiles(exts, rej, td, incF, incD, follow) ==
    StartWalk([NoWalk EXCEPT !.fn = "recurseFiles", !.exts = exts, !.reject = rej,
                             !.topDown = td, !.includeFiles = incF,
                             !.includeDirs = incD, !.followSymlinks = follow])

\* One directory of os.walk(root, topdown=topDown) and the loop body run for
\* it.  A directory that cannot be listed is skipped (onerror is None).
\* Top-down, the loop body runs before the subdirectories are walked, and
\* only those left in dirNames are; bottom-up, the subdirectories are walked
\* first, whatever the loop body does to dirNames afterwards.
OsWalkStep ==
    /\ wpc = "run"
    /\ walk.fn = "recurseFiles"
    /\ wstack # <<>>
    /\ LET top == Head(wstack)
           rest == Tail(wstack)
           i == top.dir
           h == top.hops
       IN  IF top.phase = "enter" /\ Unlistable(i, h)
           THEN /\ wstack' = rest
                /\ UNCHANGED wout
           ELSE IF top.phase = "enter" /\ ~walk.topDown
           THEN /\ wstack' = Frames(SubDirs(i), h) \o LinkFrames(walk, i, h)
                               \o <<Frame(i, "exit", h)>> \o rest
                /\ UNCHANGED wout
           ELSE /\ wout' = wout \o LoopYields(walk, i)
                /\ wstack' = (IF walk.topDown
                              THEN Frames(FilterDirs(walk, SubDirs(i)), h)
                                      \o LinkFrames(walk, i, h)
                              ELSE <<>>) \o rest
    /\ UNCHANGED <<tree, walk, wcb, wpc, wresult, transferVars, hashVars>>

\* The keyword arguments recurseFiles declares, and those recurseDirs
\* passes to it.
RecurseFilesKeywords ==
    {"filenamesOnly", "allowedExts", "fnFilterDirs", "includeFiles", "includeDirs",
     "topDown", "followSymlinks"}
RecurseDirsPasses ==
    {"filenamesOnly", "fnFilterDirs", "includeFiles", "includeDirs", "topdown",
     "followSymlinks"}

\* recurseDirs(root, fnFilterDirs=..., topdown=...): a call of recurseFiles
\* with includeFiles=False and includeDirs=True; a keyword recurseFiles does
\* not declare raises TypeError at the call.
CallRecurseDirs(rej, td) ==
    IF RecurseDirsPasses \subseteq RecurseFilesKeywords
    THEN StartWalk([NoWalk EXCEPT !.fn = "recurseFiles", !.reject = rej,
                                  !.topDown = td, !.includeFiles = FALSE,
                                  !.includeDirs = TRUE])
    ELSE /\ wpc = "idle"
         /\ walk' = [NoWalk EXCEPT !.fn = "recurseDirs", !.reject = rej,
                                   !.topDown = td, !.includeFiles = FALSE,
                                   !.includeDirs = TRUE]
         /\ wstack' = <<>>
         /\ wout' = <<>>
         /\ wcb' = <<>>
         /\ wpc' = "done"
         /\ wresult' = "TypeError"
         /\ UNCHANGED <<tree, transferVars, hashVars>>

\* recurseFileInfo(root, recurse=..., followSymlinks=..., filesOnly=...,
\* fnFilterDirs=..., fnDirectExceptionsTo=...)
CallRecurseFileInfo(rec, fo, rej, cb, follow) ==
    StartWalk([NoWalk EXCEPT !.fn = "recurseFileInfo", !.recurse = rec,
                             !.filesOnly = fo, !.reject = rej, !.callback = cb,
                             !.followSymlinks = follow])

RedirectErrorAlways(hasCallback, err) == TRUE

\* `if fnDirectExceptionsTo and isinstance(e, OSError)`
RedirectError(hasCallback, err) == hasCallback /\ err = "OSError"

\* One entry of `for entry in os.scandir(root)` in the innermost running
\* recurseFileInfo, or the end of that loop.  Listing the subdirectory
\* raises inside the try of the frame that descends into it; without a
\* redirection every enclosing frame raises it again.
FileInfoStep ==
    /\ wpc = "run"
    /\ walk.fn = "recurseFileInfo"
    /\ wstack # <<>>
    /\ LET top == Head(wstack)
           rest == Tail(wstack)
           entries == Children(top.dir)
           adv == <<[top EXCEPT !.idx = top.idx + 1]>> \o rest
       IN  IF top.idx > Len(entries)
           THEN /\ wstack' = rest
                /\ UNCHANGED <<wout, wcb, wpc, wresult>>
           ELSE LET e == entries[top.idx]
                    link == e[1] = "l"
                    \* entry.is_dir(follow_symlinks=followSymlinks)
                    isDirEntry ==
                        \/ e[1] = "d"
                        \/ link /\ tree.link.kind = "dir" /\ FollowsLink(walk.followSymlinks)
                    \* entry.is_file()
                    isFileEntry == e[1] = "f" \/ (link /\ tree.link.kind = "file")
                    j == IF link THEN tree.link.to ELSE e[2]
                    h == IF link THEN top.hops + 1 ELSE top.hops
                    accepted == link \/ Accepted(walk, j)
                    y == IF walk.filesOnly THEN wout ELSE Append(wout, e)
                IN  IF ~isDirEntry
                    THEN /\ wout' = IF isFileEntry THEN Append(wout, e) ELSE wout
                         /\ wstack' = adv
                         /\ UNCHANGED <<wcb, wpc, wresult>>
                    ELSE IF ~(walk.recurse /\ accepted)
                    THEN /\ wout' = y
                         /\ wstack' = adv
                         /\ UNCHANGED <<wcb, wpc, wresult>>
                    ELSE IF ~Unlistable(j, h)
                    THEN /\ wout' = y
                         /\ wstack' = <<Frame(j, "enter", h)>> \o adv
                         /\ UNCHANGED <<wcb, wpc, wresult>>
                    ELSE IF RedirectError(walk.callback, "OSError")
                    THEN /\ wout' = y
                         /\ wcb' = Append(wcb, <<j, "OSError">>)
                         /\ wstack' = adv
                         /\ UNCHANGED <<wpc, wresult>>
                    ELSE /\ wout' = y
                         /\ wstack' = <<>>
                         /\ wresult' = "OSError"
                         /\ wpc' = "done"
                         /\ UNCHANGED wcb
    /\ UNCHANGED <<tree, walk, transferVars, hashVars>>

\* The generator is exhausted.
WalkEnd ==
    /\ wpc = "run"
    /\ wstack = <<>>
    /\ wpc' = "done"
    /\ wresult' = "ok"
    /\ UNCHANGED <<tree, walk, wstack, wout, wcb, transferVars, hashVars>>

\* The caller is done with the traversal.
WalkReturn ==
    /\ wpc = "done"
    /\ wpc' = "idle"
    /\ walk' = NoWalk
    /\ wstack' = <<>>
    /\ wout' = <<>>
    /\ wcb' = <<>>
    /\ wresult' = "none"
    /\ UNCHANGED <<tree, transferVars, hashVars>>

WalkIdle ==
    /\ walk = NoWalk
    /\ wstack = <<>>
    /\ wout = <<>>
    /\ wcb = <<>>
    /\ wpc = "idle"
    /\ wresult = "none"

-----------------------------------------------------------------------------
(* Hashing (m3_files_higher.py).  A file's chunks are its bytes here.      *)

\* The names hasherFromString knows.
HasherNames ==
    {"sha1", "sha224", "sha256", "sha384", "sha512", "blake2b", "blake2s", "md5",
     "sha3_224", "sha3_256", "sha3_384", "sha3_512", "shake_128", "shake_256",
     "xxhash_32", "xxhash_64"}

\* The algorithms _computeHashImpl handles itself.
CrcNames == {"crc32", "crc64"}

\* The identifiers computeHash is called with; "whirlpool" is not supported.
HasherArgs == HasherNames \cup CrcNames \cup {"whirlpool"}

\* hasherFromString: a hasher, or ValueError('Unknown hash type').
hasherFromString(name) == IF name \in HasherNames THEN "ok" ELSE "ValueError"

\* The accumulator takes one byte: a checksum stands for the digest state.
UpdateByte(st, b) == (st * 3 + b) % 11

\* hasher.update(buffer), zlib.crc32(buffer, crc), crc64_pair(buffer, cur)
RECURSIVE Update(_, _)
Update(st, buffer) ==
    IF buffer = <<>> THEN st
    ELSE Update(UpdateByte(st, Head(buffer)), Tail(buffer))

\* The names whose hashlib object needs a length for hexdigest(): the call
\* hasher.hexdigest() without one raises TypeError.
NeedsDigestLength == {"shake_128", "shake_256"}

\* What the end of _computeHashImpl gives once n bytes were read:
\* '%08x' % crc, format_crc64_pair(cur) or hasher.hexdigest().  For crc64,
\* cur is still None when nothing was read; crc64iso is not part of this
\* repository, so format_crc64_pair(None) may return or raise.
Finalize(name, n) ==
    IF name \in NeedsDigestLength THEN {"TypeError"}
    ELSE IF name = "crc64" /\ n = 0 THEN {"ok", "TypeError"}
    ELSE {"ok"}

NoHash == [path |-> "a", hasher |-> "sha1", buffersize |-> 1]

\* f.read(buffersize) at offset p of the bytes data.
ReadBuffer(data, p, n) ==
    SubSeq(data, p + 1, IF p + n > Len(data) THEN Len(data) ELSE p + n)

\* open(path, 'rb')
OpenForRead(f, path) ==
    IF isFile(f, path) THEN "ok"
    ELSE IF isDir(f, path) THEN "IsADirectoryError"
    ELSE "FileNotFoundError"

HashFinish(r) ==
    /\ hresult' = r
    /\ hpc' = "done"

\* computeHash(path, hasher, buffersize): `with open(path, 'rb') as f`.
CallComputeHash(path, hasher, buffersize) ==
    /\ hpc = "idle"
    /\ hcall' = [path |-> path, hasher |-> hasher, buffersize |-> buffersize]
    /\ hio' = <<"open">>
    /\ hacc' = 0
    /\ hpos' = 0
    /\ LET o == OpenForRead(fs, path)
       IN  IF o = "ok"
           THEN hpc' = "opened" /\ hresult' = "none"
           ELSE HashFinish(o)
    /\ UNCHANGED <<transferVars, walkVars>>

\* _computeHashImpl up to its read loop: crc32 and crc64 start their own
\* accumulator, any other name goes to hasherFromString.
HashSelect ==
    /\ hpc = "opened"
    /\ LET h == IF hcall.hasher \in CrcNames THEN "ok"
                ELSE hasherFromString(hcall.hasher)
       IN  IF h = "ok"
           THEN hpc' = "reading" /\ UNCHANGED hresult
           ELSE HashFinish(h)
    /\ UNCHANGED <<hcall, hio, hacc, hpos, transferVars, walkVars>>

\* One turn of the read loop: buffer = f.read(buffersize); an empty buffer
\* ends it and the digest is returned.
HashRead ==
    /\ hpc = "reading"
    /\ hio' = Append(hio, "read")
    /\ LET buffer == ReadBuffer(fs[hcall.path].data, hpos, hcall.buffersize)
       IN  IF buffer = <<>>
           THEN /\ \E r \in Finalize(hcall.hasher, hpos) : HashFinish(r)
                /\ UNCHANGED <<hacc, hpos>>
           ELSE /\ hacc' = Update(hacc, buffer)
                /\ hpos' = hpos + Len(buffer)
                /\ UNCHANGED <<hpc, hresult>>
    /\ UNCHANGED <<hcall, transferVars, walkVars>>

\* The caller has the digest or the error.
HashReturn ==
    /\ hpc = "done"
    /\ hpc' = "idle"
    /\ hcall' = NoHash
    /\ hio' = <<>>
    /\ hacc' = 0
    /\ hpos' = 0
    /\ hresult' = "none"
    /\ UNCHANGED <<transferVars, walkVars>>

HashIdle ==
    /\ hcall = NoHash
    /\ hpc = "idle"
    /\ hio = <<>>
    /\ hacc = 0
    /\ hpos = 0
    /\ hresult = "none"

DefaultTree ==
    [names |-> [i \in 0..MaxDepth |-> <<"a", ".", "t">>], unreadable |-> 0,
     dirFirst |-> FALSE, link |-> NoLink]

-----------------------------------------------------------------------------
(* The sequential specification: one call at a time, nobody else writing *)

TransferInit ==
    /\ platform \in Platforms
    /\ fs \in [Paths -> Nodes]
    /\ pc = "idle"
    /\ call = NoCall
    /\ pre = fs
    /\ result = "none"
    /\ pos = 0
    /\ fd = "closed"
    /\ tries = <<>>
    /\ dirs = AllDirs

Init ==
    /\ TransferInit
    /\ tree = DefaultTree
    /\ WalkIdle
    /\ HashIdle

TransferNext ==
    \/ \E s \in Paths, d \in Paths, ow \in BOOLEAN, ad \in BOOLEAN :
          CallCopy(s, d, ow, ad, FALSE, FALSE)
    \/ \E s \in Paths, d \in Paths, ow \in BOOLEAN, ad \in BOOLEAN, warn \in BOOLEAN :
          CallMove(s, d, ow, ad, warn, FALSE)
    \/ CopyStrategy
    \/ MoveStrategy
    \/ CopyChunk
    \/ CopyEnd
    \/ StreamFail
    \/ MoveUnlink
    \/ Return

Next == TransferNext

Spec == Init /\ [][Next]_vars

-----------------------------------------------------------------------------
(* The racing specification: while a call runs, another writer creates and *)
(* removes files at the call's destination path.                           *)

\* Another process creates the destination, which is not there.
OtherCreate ==
    /\ pc \in {"strategy", "stream", "unlink"}
    /\ ~exists(fs, call.dst)
    /\ \E c \in Contents : fs' = [fs EXCEPT ![call.dst] = File(c)]
    /\ UNCHANGED <<platform, dirs, tries, pc, call, pre, result, pos, fd, walkVars, hashVars>>

\* Another process unlinks the destination file; a handle open on it keeps
\* the file, which no path names any more.
OtherUnlink ==
    /\ pc \in {"strategy", "stream", "unlink"}
    /\ isFile(fs, call.dst)
    /\ fs' = [fs EXCEPT ![call.dst] = Absent]
    /\ fd' = IF fd = "closed" THEN "closed" ELSE "orphan"
    /\ UNCHANGED <<platform, dirs, tries, pc, call, pre, result, pos, walkVars, hashVars>>

NextRace ==
    \/ TransferNext
    \/ OtherCreate
    \/ OtherUnlink

SpecRace == Init /\ [][NextRace]_vars

-----------------------------------------------------------------------------
(* The modification-time specification: files of any age, copies with and  *)
(* without keepSameModifiedTime                                            *)

InitTime ==
    /\ platform \in Platforms
    /\ fs \in [Paths -> TimedNodes]
    /\ fs["c"] = Absent
    /\ pc = "idle"
    /\ call = NoCall
    /\ pre = fs
    /\ result = "none"
    /\ pos = 0
    /\ fd = "closed"
    /\ tries = <<>>
    /\ dirs = AllDirs
    /\ tree = DefaultTree
    /\ WalkIdle
    /\ HashIdle

NextTime ==
    \/ \E s \in Paths, d \in Paths, ow \in BOOLEAN, keep \in BOOLEAN :
          CallCopy(s, d, ow, FALSE, keep, FALSE)
    \/ CopyStrategy
    \/ CopyChunk
    \/ CopyEnd
    \/ StreamFail
    \/ Return

SpecTime == InitTime /\ [][NextTime]_vars

-----------------------------------------------------------------------------
(* The parent-directory specification: the directories above the           *)
(* destination may be missing, calls are made with and without             *)
(* createParent, and another process may fill the parent's place between   *)
(* the call's existence test and its makeDirs.                             *)

\* Another process creates the destination's parent directory.
OtherMakeDir ==
    /\ pc = "makedirs"
    /\ os_makedirs(dirs, getParent(call.dst)).err = "ok"
    /\ dirs' = os_makedirs(dirs, getParent(call.dst)).dirs
    /\ UNCHANGED <<platform, fs, pc, call, pre, result, pos, fd, tries, walkVars,
                   hashVars>>

\* Another process creates a file where the parent directory, or a
\* directory above it, would be.
OtherMakeFile ==
    /\ pc = "makedirs"
    /\ \E t \in DirNames :
          /\ dirs[t] = "none"
          /\ \A x \in Ancestors(t) : dirs[x] = "dir"
          /\ dirs' = [dirs EXCEPT ![t] = "file"]
    /\ UNCHANGED <<platform, fs, pc, call, pre, result, pos, fd, tries, walkVars,
                   hashVars>>

InitParent ==
    /\ platform \in Platforms
    /\ dirs \in DirStates
    /\ fs \in [Paths -> {Absent} \cup {File(c) : c \in Contents}]
    /\ exists(fs, "b") => dirs["q"] = "dir"
    /\ pc = "idle"
    /\ call = NoCall
    /\ pre = fs
    /\ result = "none"
    /\ pos = 0
    /\ fd = "closed"
    /\ tries = <<>>
    /\ tree = DefaultTree
    /\ WalkIdle
    /\ HashIdle

NextParent ==
    \/ \E s \in Paths, d \in Paths, ow \in BOOLEAN, cp \in BOOLEAN :
          CallCopy(s, d, ow, FALSE, FALSE, cp)
    \/ \E s \in Paths, d \in Paths, ow \in BOOLEAN, cp \in BOOLEAN :
          CallMove(s, d, ow, FALSE, FALSE, cp)
    \/ MakeDirs
    \/ OtherMakeDir
    \/ OtherMakeFile
    \/ CopyStrategy
    \/ MoveStrategy
    \/ CopyChunk
    \/ CopyEnd
    \/ StreamFail
    \/ MoveUnlink
    \/ Return

SpecParent == InitParent /\ [][NextParent]_vars

-----------------------------------------------------------------------------
(* The traversal specification: any tree, one traversal at a time *)

TransferIdle ==
    /\ platform = "linux"
    /\ fs = [p \in Paths |-> Absent]
    /\ pc = "idle"
    /\ call = NoCall
    /\ pre = fs
    /\ result = "none"
    /\ pos = 0
    /\ fd = "closed"
    /\ tries = <<>>
    /\ dirs = AllDirs

InitWalk ==
    /\ TransferIdle
    /\ tree \in Trees
    /\ WalkIdle
    /\ HashIdle

NextWalk ==
    \/ \E exts \in ExtOptions, rej \in 0..MaxDepth, td \in BOOLEAN,
          incF \in BOOLEAN, incD \in BOOLEAN :
          CallRecurseFiles(exts, rej, td, incF, incD, FALSE)
    \/ \E rej \in 0..MaxDepth, td \in BOOLEAN : CallRecurseDirs(rej, td)
    \/ \E rec \in BOOLEAN, fo \in BOOLEAN, rej \in 0..MaxDepth, cb \in BOOLEAN :
          CallRecurseFileInfo(rec, fo, rej, cb, FALSE)
    \/ OsWalkStep
    \/ FileInfoStep
    \/ WalkEnd
    \/ WalkReturn

SpecWalk == InitWalk /\ [][NextWalk]_vars

-----------------------------------------------------------------------------
(* The symbolic-link specification: trees with a symbolic link, traversals *)
(* with and without followSymlinks, read to their end by the caller        *)

LinkTrees ==
    {[DefaultTree EXCEPT !.dirFirst = df, !.link = l] : df \in BOOLEAN, l \in Links}

InitLinks ==
    /\ TransferIdle
    /\ tree \in LinkTrees
    /\ WalkIdle
    /\ HashIdle

NextLinks ==
    \/ \E td \in BOOLEAN, incF \in BOOLEAN, incD \in BOOLEAN, follow \in BOOLEAN :
          CallRecurseFiles(NoExts, 0, td, incF, incD, follow)
    \/ \E rec \in BOOLEAN, fo \in BOOLEAN, cb \in BOOLEAN, follow \in BOOLEAN :
          CallRecurseFileInfo(rec, fo, 0, cb, follow)
    \/ OsWalkStep
    \/ FileInfoStep
    \/ WalkEnd
    \/ WalkReturn

\* The caller keeps asking the generator for its next entry.
SpecLinks ==
    /\ InitLinks
    /\ [][NextLinks]_vars
    /\ WF_vars(OsWalkStep)
    /\ WF_vars(FileInfoStep)
    /\ WF_vars(WalkEnd)

-----------------------------------------------------------------------------
(* The hashing specification: any files, one computeHash at a time *)

InitHash ==
    /\ platform = "linux"
    /\ fs \in [Paths -> Nodes]
    /\ pc = "idle"
    /\ call = NoCall
    /\ pre = fs
    /\ result = "none"
    /\ pos = 0
    /\ fd = "closed"
    /\ tries = <<>>
    /\ dirs = AllDirs
    /\ tree = DefaultTree
    /\ WalkIdle
    /\ HashIdle

NextHash ==
    \/ \E path \in Paths, hasher \in HasherArgs, buffersize \in 1..MaxBuf :
          CallComputeHash(path, hasher, buffersize)
    \/ HashSelect
    \/ HashRead
    \/ HashReturn

SpecHash == InitHash /\ [][NextHash]_vars

-----------------------------------------------------------------------------
(* Claims about copy and move *)

C2_NoPartialDestination ==
    (/\ call.op = "copy"
     /\ pc = "stream" \/ (pc = "done" /\ result \in {"IOError", "Interrupted"}))
        => \/ ~exists(fs, call.dst)
           \/ fs[call.dst].data = pre[call.src].data

\* The steps of the running call itself (not the other writer's).
CallStep == CopyStrategy \/ MoveStrategy \/ CopyChunk \/ CopyEnd \/ StreamFail

\* C3: with overwrite false on the POSIX path, no step of the call changes
\* a destination file it did not create itself, and the step that opens the
\* destination either creates it or fails with a conflict, leaving the file
\* system as it is.
C3_ExclusiveCreate ==
    [][(/\ platform # "win"
        /\ call.op \in {"copy", "move"}
        /\ ~call.overwrite
        /\ CallStep)
          => /\ (exists(fs, call.dst) /\ fd # "mine") => fs'[call.dst] = fs[call.dst]
             /\ fd' # "theirs"
             /\ pc = "strategy" =>
                   \/ ~exists(fs, call.dst) /\ fd' = "mine" /\ pc' = "stream"
                   \/ pc' = "done" /\ result' # "ok" /\ fs' = fs]_vars

\* The other writer created the destination between the call's checks and
\* its open, and the open failed.
C3_Witness ==
    /\ pc = "done"
    /\ call.op = "copy"
    /\ platform = "other"
    /\ ~call.overwrite
    /\ ~exists(pre, call.dst)
    /\ isFile(fs, call.dst)
    /\ result = "DestinationConflict"

C5_CrossVolumeFallback ==
    (/\ pc = "done"
     /\ call.op = "move"
     /\ isFile(pre, call.src)
     /\ Volume(call.src) # Volume(call.dst)
     /\ platform = "win" \/ (platform = "linux" /\ call.overwrite)
     /\ call.overwrite \/ ~exists(pre, call.dst))
        => /\ result = "ok"
           /\ ~exists(fs, call.src)
           /\ SameContent(fs[call.dst], pre[call.src])

C13_SourceChecks ==
    (pc = "done" /\ call.op \in {"copy", "move"}) =>
        /\ (~exists(pre, call.src) \/ (isDir(pre, call.src) /\ ~call.allowDirs))
              => (result = "SourceMissing" /\ fs = pre)
        /\ (/\ isDir(pre, call.src)
            /\ call.allowDirs
            /\ call.src # call.dst
            /\ ~exists(pre, call.dst)
            /\ Volume(call.src) = Volume(call.dst))
              => /\ result = "ok"
                 /\ isDir(fs, call.dst)
                 /\ call.op = "move" => ~exists(fs, call.src)

\* C14: no call retries a platform primitive more than once.  A move on
\* Windows calls MoveFileExW at most twice; it calls it a second time only
\* after a different-volumes failure of the first call with
\* warnBetweenDrives set, and then with the copy-allowed flag; a failure of
\* that second call, and every other failure, is raised with the file system
\* as it was.  Every other call invokes its primitive once.
C14_RetryAtMostOnce ==
    (call.op \in {"copy", "move"}) =>
        /\ Len(tries) <= 2
        /\ Len(tries) = 2 =>
              /\ platform = "win" /\ call.op = "move"
              /\ call.warnBetweenDrives
              /\ Volume(call.src) # Volume(call.dst)
              /\ tries[1] = Try("MoveFileExW", call.overwrite, FALSE)
              /\ tries[2] = Try("MoveFileExW", call.overwrite, TRUE)
        /\ (pc = "strategy" /\ Len(tries) = 1) =>
              (call.warnBetweenDrives /\ Volume(call.src) # Volume(call.dst))
        /\ (/\ pc = "done"
            /\ platform = "win"
            /\ result = "CrossVolume"
            /\ call.warnBetweenDrives) => Len(tries) = 2
        /\ (pc = "done" /\ platform = "win" /\ call.op = "move" /\ result # "ok") =>
              fs = pre

\* The retry was made and failed too (a directory cannot be moved to
\* another volume): its failure was raised.
C14_Witness ==
    /\ pc = "done"
    /\ call.op = "move"
    /\ platform = "win"
    /\ call.warnBetweenDrives
    /\ Len(tries) = 2
    /\ result = "CrossVolume"

\* makeDirs raised.
CreationFailed == result \in {"FileNotFoundError", "FileExistsError", "NotADirectoryError"}

\* Something that is no directory lies at t or at a directory above t.
NonDirectoryOccupies(d, t) ==
    /\ t \in DirNames
    /\ d[t] = "file" \/ \E x \in Ancestors(t) : d[x] = "file"

\* C15: with createParent, a copy or move creates the destination's missing
\* parent directory and the missing directories above it before it
\* transfers; the creation fails only when something that is no directory
\* occupies the parent's path (in particular it does not fail when another
\* process created the directory after the existence test).
C15_CreateParent ==
    (pc = "done" /\ call.createParent /\ call.src # call.dst) =>
        /\ CreationFailed => NonDirectoryOccupies(dirs, getParent(call.dst))
        /\ result = "ok" => ParentIsDir(dirs, call.dst) /\ exists(fs, call.dst)

\* move takes its copy-then-delete path.
CopyThenDelete == platform # "win" /\ ~(platform = "linux" /\ call.overwrite)

C12_ModTimeKept ==
    (/\ pc = "done"
     /\ call.op = "copy"
     /\ call.keepSameModifiedTime
     /\ exists(pre, call.dst)
     /\ result = "ok")
        => /\ fs[call.dst].mtime = pre[call.dst].mtime
           /\ fs[call.dst].data = pre[call.src].data

-----------------------------------------------------------------------------
(* Claims about the traversals *)

Yielded == {wout[k] : k \in 1..Len(wout)}

YieldedOnce == \A a, b \in 1..Len(wout) : a # b => wout[a] # wout[b]

\* C7: in a recursing traversal with a directoryPredicate, no yielded entry is a rejected directory
\* or lies beneath one (the rejected directory is <<"d", walk.reject>>;
\* the entries of depth walk.reject and more lie beneath it).
C7_PrunedNeverYielded ==
    (/\ walk.fn \in {"recurseFiles", "recurseDirs", "recurseFileInfo"}
     /\ walk.recurse
     /\ walk.reject # 0)
        => \A n \in Yielded : n[2] < walk.reject

\* The extension each file name has: what follows its last dot, in lower
\* case; a name that only starts with a dot has none.
WantedExt[n \in FileNames] ==
    CASE n = <<"a", ".", "t">> -> <<"t">>
      [] n = <<"a", ".", "p", ".", "T">> -> <<"t">>
      [] n = <<".", "t">> -> <<>>
      [] n = <<"b", ".", "p">> -> <<"p">>

\* Directory j and all directories above it can be listed.
Listable(j) == \A k \in 1..j : k # tree.unreadable

AllowlistedFiles ==
    {<<"f", j>> : j \in {i \in 0..MaxDepth :
                            Listable(i) /\ WantedExt[tree.names[i]] \in walk.exts.set}}

Entered(j) ==
    \/ j = 0
    \/ walk.recurse /\ \A k \in 1..j : k # walk.reject /\ k # tree.unreadable

\* recurseFileInfo tries to list the unreadable directory.
ListingFails ==
    /\ tree.unreadable # 0
    /\ walk.recurse
    /\ tree.unreadable # walk.reject
    /\ Entered(tree.unreadable - 1)

\* The entries outside the subtrees that are pruned or cannot be listed.
EntriesOutside ==
    {<<"f", j>> : j \in {i \in 0..MaxDepth : Entered(i)}}
    \cup (IF walk.filesOnly THEN {}
          ELSE {<<"d", j>> : j \in {i \in 1..MaxDepth : Entered(i - 1)}})

\* The entries that come before the listing of the unreadable directory.
EntriesBeforeFailure ==
    (IF walk.filesOnly THEN {} ELSE {<<"d", j>> : j \in 1..tree.unreadable})
    \cup (IF tree.dirFirst THEN {}
          ELSE {<<"f", j>> : j \in 0..(tree.unreadable - 1)})

\* C9: in recurseFileInfo, when listing a subdirectory raises OSError: with
\* a callback, the callback is called once with (that subdirectory, the
\* error) and the entries outside that subtree are all yielded; without a
\* callback the error reaches the caller and nothing is yielded after it.
C9_ErrorRedirection ==
    (wpc = "done" /\ walk.fn = "recurseFileInfo") =>
        IF ~ListingFails
        THEN wresult = "ok" /\ wcb = <<>> /\ Yielded = EntriesOutside
        ELSE IF walk.callback
        THEN /\ wresult = "ok"
             /\ wcb = << <<tree.unreadable, "OSError">> >>
             /\ Yielded = EntriesOutside
        ELSE /\ wresult = "OSError"
             /\ wcb = <<>>
             /\ Yielded = EntriesBeforeFailure

\* The deepest directory cannot be listed, the callback was told, and the
\* file next to it was yielded afterwards.
C9_Witness ==
    /\ wpc = "done"
    /\ walk.fn = "recurseFileInfo"
    /\ walk.callback
    /\ tree.dirFirst
    /\ tree.unreadable = MaxDepth
    /\ wcb = << <<MaxDepth, "OSError">> >>
    /\ <<"f", MaxDepth - 1>> \in Yielded
    /\ <<"f", 0>> \in Yielded

\* A traversal without followSymlinks is running or has ended.
WalkingUnfollowed ==
    walk.fn \in {"recurseFiles", "recurseFileInfo"} /\ ~walk.followSymlinks

\* C16: without followSymlinks, recurseFiles and recurseFileInfo never work
\* on a directory reached through a symbolic link and yield no entry twice,
\* and every such traversal, on a tree with a cycle of links too, comes to
\* its end.
C16_LinksNotFollowed ==
    /\ [](WalkingUnfollowed =>
            /\ YieldedOnce
            /\ \A k \in 1..Len(wstack) : wstack[k].hops = 0)
    /\ ((WalkingUnfollowed /\ wpc = "run") ~> (wpc = "done"))

\* The deepest directory holds a link to the root (a cycle); the traversal
\* ended, having yielded the file that lies next to the link.
C16_Witness ==
    /\ wpc = "done"
    /\ walk.fn = "recurseFileInfo"
    /\ walk.recurse
    /\ ~walk.filesOnly
    /\ ~walk.followSymlinks
    /\ tree.link = [at |-> MaxDepth, kind |-> "dir", to |-> 0]
    /\ wresult = "ok"
    /\ <<"f", MaxDepth>> \in Yielded

-----------------------------------------------------------------------------
(* Claims about hashing *)

\* C10: computeHash of a path that is a file or does not exist, with an
\* unsupported algorithm identifier, ends with the configuration error
\* (ValueError) and has made no I/O call: the file was not opened and not
\* read.
C10_UnknownAlgorithmBeforeIO ==
    (/\ hpc = "done"
     /\ ~isDir(fs, hcall.path)
     /\ hcall.hasher \notin HasherNames \cup CrcNames) =>
        /\ hresult = "ValueError"
        /\ hio = <<>>

\* C11: computeHash of a file with a supported algorithm returns a digest,
\* and the digest is that of the file's bytes taken as one sequence,
\* whatever the buffer size: two calls with different buffer sizes return
\* the same digest, for the empty file too.  (crc64 of an empty file is
\* left out: it depends on the crc64iso module alone.)
C11_BufferSizeIndependent ==
    (/\ hpc = "done"
     /\ isFile(fs, hcall.path)
     /\ hcall.hasher \in HasherNames \cup CrcNames
     /\ ~(hcall.hasher = "crc64" /\ fs[hcall.path].data = <<>>)) =>
        /\ hresult = "ok"
        /\ hacc = Update(0, fs[hcall.path].data)

=============================================================================
